---- MODULE Spec2Model ----
(***************************************************************************)
(* Model of the hand-written macros of linux-raw-sys (src/src/lib.rs):     *)
(*   cmsg_macros   : CMSG_ALIGN, CMSG_SPACE, CMSG_LEN, CMSG_FIRSTHDR,       *)
(*                   CMSG_NXTHDR                                            *)
(*   select_macros : FD_CLR, FD_SET, FD_ISSET, FD_ZERO                      *)
(*                                                                         *)
(* Integer widths are scaled so that TLC can enumerate them: c_uint has    *)
(* UIntBits bits instead of 32; usize has as many bits as c_uint on a      *)
(* 32-bit target and one more bit on a 64-bit target (so that the cast     *)
(* `cmsg_len as c_uint` truncates there, as it does from 64 to 32 bits).   *)
(* Byte sizes (c_long, cmsghdr) keep their real values.                    *)
(***************************************************************************)
EXTENDS Integers, Sequences, FiniteSets

\* ------------------------------------------------------------ bounds
UIntBits == 6
MaxCtlLen == 40
MaxPayload == 9
MaxRecs == 3
MaxSteps == 3
FdSetBytes == 2
GuardBytes == 1
NegFds == 1
MaxOps == 2

\* ------------------------------------------------------------ encodings
\* ptr::null_mut()
Null == 0
\* the call panicked (arithmetic overflow in a checking build)
Panic == 0 - 1
\* no value yet
NoVal == 0 - 2
\* address of the caller's control buffer
Base == 8

IsAddr(p) == p > 0

RECURSIVE Pow2(_)
Pow2(n) == IF n = 0 THEN 1 ELSE 2 * Pow2(n - 1)

\* bitwise operators on naturals
RECURSIVE BitAnd(_, _)
BitAnd(a, b) ==
    IF a = 0 \/ b = 0 THEN 0
    ELSE (a % 2) * (b % 2) + 2 * BitAnd(a \div 2, b \div 2)

RECURSIVE BitOr(_, _)
BitOr(a, b) ==
    IF a = 0 THEN b
    ELSE IF b = 0 THEN a
    ELSE (IF a % 2 = 1 \/ b % 2 = 1 THEN 1 ELSE 0) + 2 * BitOr(a \div 2, b \div 2)

\* `!x` on an unsigned type of modulus m
BitNot(x, m) == m - 1 - x

\* ------------------------------------------------------------ ctypes
PtrWidths == {32, 64}

\* modulus of c_uint
UIntMod == Pow2(UIntBits)

\* modulus of usize (and of the size_t fields cmsg_len, msg_controllen)
UsizeMod(pw) == IF pw = 32 THEN UIntMod ELSE 2 * UIntMod

\* size_of::<c_long>()
SizeofCLong(pw) == pw \div 8

\* size_of::<cmsghdr>(): size_t cmsg_len; int cmsg_level; int cmsg_type
SizeofCmsghdr(pw) == pw \div 8 + 4 + 4

\* ------------------------------------------------------------ cmsg_macros
\* a + b in c_uint: panics under overflow checks, wraps otherwise
UIntAdd(oc, a, b) ==
    IF a = Panic \/ b = Panic THEN Panic
    ELSE IF a + b >= UIntMod THEN (IF oc THEN Panic ELSE (a + b) % UIntMod)
    ELSE a + b

\* a - b in c_uint
UIntSub(oc, a, b) ==
    IF a = Panic \/ b = Panic THEN Panic
    ELSE IF a < b THEN (IF oc THEN Panic ELSE a - b + UIntMod)
    ELSE a - b

\* a + b in usize
UsizeAdd(pw, oc, a, b) ==
    IF a = Panic \/ b = Panic THEN Panic
    ELSE IF a + b >= UsizeMod(pw) THEN (IF oc THEN Panic ELSE (a + b) % UsizeMod(pw))
    ELSE a + b

\* p.add(n) on a byte pointer: an address computation that leaves the address
\* space is undefined; the build either traps (pointer checks) or wraps
PtrAdd(pw, pc, p, n) ==
    IF p = Panic \/ n = Panic THEN Panic
    ELSE IF p + n >= UsizeMod(pw) THEN (IF pc THEN Panic ELSE (p + n) % UsizeMod(pw))
    ELSE p + n

\* mutant: the `- 1` of the rounding is missing
CMSG_ALIGN_NoMinusOne(pw, oc, len) ==
    LET c_long_size == SizeofCLong(pw)
        sum == UIntAdd(oc, len, c_long_size)
    IN  IF sum = Panic THEN Panic
        ELSE BitAnd(sum, BitNot(c_long_size - 1, UIntMod))

\* (len + c_long_size - 1) & !(c_long_size - 1), in c_uint
CMSG_ALIGN(pw, oc, len) ==
    LET c_long_size == SizeofCLong(pw)
        sum == UIntSub(oc, UIntAdd(oc, len, c_long_size), 1)
    IN  IF sum = Panic THEN Panic
        ELSE BitAnd(sum, BitNot(c_long_size - 1, UIntMod))

\* size_of::<cmsghdr>() as c_uint + CMSG_ALIGN(len)
CMSG_SPACE(pw, oc, len) == UIntAdd(oc, SizeofCmsghdr(pw), CMSG_ALIGN(pw, oc, len))

\* size_of::<cmsghdr>() as c_uint + len
CMSG_LEN(pw, oc, len) == UIntAdd(oc, SizeofCmsghdr(pw), len)

\* mutant: the length of the control buffer is not checked
CMSG_FIRSTHDR_NoLengthCheck(pw, control, controllen) == control

CMSG_FIRSTHDR(pw, control, controllen) ==
    IF controllen < SizeofCmsghdr(pw) THEN Null ELSE control

CMSG_NXTHDR(pw, oc, pc, control, controllen, cmsg, cmsg_len) ==
    LET al == CMSG_ALIGN(pw, oc, cmsg_len % UIntMod)
        next_cmsg == PtrAdd(pw, pc, cmsg, al)
        max == UsizeAdd(pw, oc, control, controllen)
        past == PtrAdd(pw, pc, next_cmsg, SizeofCmsghdr(pw))
        span == UsizeAdd(pw, oc, next_cmsg, al)
    IN  IF next_cmsg = Panic \/ max = Panic THEN Panic
        ELSE IF cmsg_len < SizeofCmsghdr(pw) THEN Null
        ELSE IF past = Panic THEN Panic
        ELSE IF past > max THEN Null
        ELSE IF span = Panic THEN Panic
        ELSE IF span > max THEN Null
        ELSE next_cmsg

\* ------------------------------------------------------------ select_macros
\* size_of::<__kernel_fd_set>(), scaled
SizeofFdSet == FdSetBytes

\* number of descriptor indices the bitmap holds
Capacity == 8 * SizeofFdSet

\* modulus of u8
ByteMod == 256

\* mutant: the byte index is rounded up
FdByte_RoundUp(fd) == (fd + 7) \div 8

\* bytes.add((fd / 8) as usize): the byte a call touches
FdByte(fd) == fd \div 8

\* 1 << (fd % 8)
FdMask(fd) == Pow2(fd % 8)

\* mutant: the whole byte is cleared
FD_CLR_WholeByte(fd, bytes) ==
    IF fd >= 0
    THEN [bytes EXCEPT ![FdByte(fd)] = 0]
    ELSE bytes

FD_CLR(fd, bytes) ==
    IF fd >= 0
    THEN [bytes EXCEPT ![FdByte(fd)] = BitAnd(@, BitNot(FdMask(fd), ByteMod))]
    ELSE bytes

\* mutant: the sign of fd is not checked; -1 / 8 is 0 and the shift count is
\* taken modulo 8
FD_SET_NoSignCheck(fd, bytes) ==
    IF fd >= 0
    THEN [bytes EXCEPT ![FdByte(fd)] = BitOr(@, FdMask(fd))]
    ELSE [bytes EXCEPT ![0] = BitOr(@, FdMask(fd))]

FD_SET(fd, bytes) ==
    IF fd >= 0
    THEN [bytes EXCEPT ![FdByte(fd)] = BitOr(@, FdMask(fd))]
    ELSE bytes

FD_ISSET(fd, bytes) ==
    IF fd >= 0
    THEN BitAnd(bytes[FdByte(fd)], FdMask(fd)) # 0
    ELSE FALSE

\* write_bytes(bytes, 0, size_of::<__kernel_fd_set>())
FD_ZERO(bytes) == [b \in DOMAIN bytes |-> IF b < SizeofFdSet THEN 0 ELSE bytes[b]]

\* the bytes FD_CLR, FD_SET and FD_ISSET dereference
FdAccess(fd) == IF fd >= 0 THEN {FdByte(fd)} ELSE {}

\* ------------------------------------------------------------ state
VARIABLES
    ptr_width,        \* target_pointer_width of the build: 32 or 64
    overflow_checks,  \* the build panics on integer overflow (else wraps)
    ptr_checks,       \* the build traps on pointer-arithmetic overflow (else wraps)
    len,              \* argument of CMSG_ALIGN
    aligned,          \* CMSG_ALIGN(len)
    realigned,        \* CMSG_ALIGN(CMSG_ALIGN(len))
    msg_control,      \* (*mhdr).msg_control
    msg_controllen,   \* (*mhdr).msg_controllen
    mem,              \* cmsg_len field read at each word-aligned address of the buffer
    cur,              \* the caller's iterator: result of the last call
    prev,             \* cmsg argument of the last CMSG_NXTHDR call
    last_op,          \* "none", "first" or "next"
    trace,            \* the non-null headers returned so far, in order
    fdmem,            \* bytes of the __kernel_fd_set, followed by GuardBytes of foreign memory
    members,          \* the set of indices the bitmap stands for
    fd_op,            \* "none", "set", "clr", "isset" or "zero"
    fd_arg,           \* fd argument of the last call
    fd_access,        \* byte indices the last call read or wrote
    isset_ret,        \* result of the last FD_ISSET
    oob,              \* some call accessed memory outside the __kernel_fd_set
    nops              \* number of select_macros calls so far

buildVars == <<ptr_width, overflow_checks, ptr_checks>>
alignVars == <<len, aligned, realigned>>
cmsgVars == <<msg_control, msg_controllen, mem, cur, prev, last_op, trace>>
fdVars == <<fdmem, members, fd_op, fd_arg, fd_access, isset_ret, oob, nops>>
vars == <<buildVars, alignVars, cmsgVars, fdVars>>

InitBuild ==
    /\ ptr_width \in PtrWidths
    /\ overflow_checks \in BOOLEAN
    /\ ptr_checks \in BOOLEAN

\* word-aligned addresses of the memory region that holds the control buffer
Slots(pw) == {Base + k * SizeofCLong(pw) : k \in 0..(MaxCtlLen \div SizeofCLong(pw))}

\* the header at address a lies inside the declared control buffer
HeaderInside(pw, control, controllen, a) ==
    /\ control <= a
    /\ a + SizeofCmsghdr(pw) <= control + controllen

\* the build of a run that does not depend on it
IdleBuild ==
    /\ ptr_width = 64
    /\ overflow_checks = FALSE
    /\ ptr_checks = FALSE

IdleAlign == len = 0 /\ aligned = NoVal /\ realigned = NoVal

IdleCmsg ==
    /\ msg_control = Null
    /\ msg_controllen = 0
    /\ mem = [a \in Slots(ptr_width) |-> 0]
    /\ cur = Null
    /\ prev = Null
    /\ last_op = "none"
    /\ trace = <<>>

FdBytes == 0..(FdSetBytes + GuardBytes - 1)

IdleFd ==
    /\ fdmem = [b \in FdBytes |-> 0]
    /\ members = {}
    /\ fd_op = "none"
    /\ fd_arg = 0
    /\ fd_access = {}
    /\ isset_ret = FALSE
    /\ oob = FALSE
    /\ nops = 0

\* ------------------------------------------------------------ CMSG_ALIGN as a function
InitAlign ==
    /\ ptr_width \in PtrWidths
    /\ overflow_checks \in BOOLEAN
    /\ ptr_checks = FALSE
    /\ len \in 0..(UIntMod - 1)
    /\ aligned = NoVal
    /\ realigned = NoVal
    /\ IdleCmsg
    /\ IdleFd

Align ==
    /\ aligned = NoVal
    /\ aligned' = CMSG_ALIGN(ptr_width, overflow_checks, len)
    /\ UNCHANGED <<buildVars, len, realigned, cmsgVars, fdVars>>

Realign ==
    /\ aligned # NoVal
    /\ aligned # Panic
    /\ realigned = NoVal
    /\ realigned' = CMSG_ALIGN(ptr_width, overflow_checks, aligned)
    /\ UNCHANGED <<buildVars, len, aligned, cmsgVars, fdVars>>

NextAlign == Align \/ Realign

SpecAlign == InitAlign /\ [][NextAlign]_vars

\* ------------------------------------------------------------ control-message traversal
\* one call on an arbitrary header: any envelope, any header position inside
\* the buffer, any cmsg_len
InitCall ==
    /\ InitBuild
    /\ IdleAlign
    /\ IdleFd
    /\ msg_control \in {Null, Base}
    /\ msg_controllen \in 0..MaxCtlLen
    /\ cur \in {Null} \cup {a \in Slots(ptr_width) :
                      /\ msg_control # Null
                      /\ HeaderInside(ptr_width, msg_control, msg_controllen, a)}
    /\ \E l \in 0..(UsizeMod(ptr_width) - 1) :
          mem = [a \in Slots(ptr_width) |-> IF a = cur THEN l ELSE 0]
    /\ prev = Null
    /\ last_op = "none"
    /\ trace = <<>>

\* total space of the records of payload sizes ps
RECURSIVE Total(_, _)
Total(pw, ps) ==
    IF ps = <<>> THEN 0
    ELSE CMSG_SPACE(pw, FALSE, Head(ps)) + Total(pw, Tail(ps))

\* address of the i-th record of a buffer built back to back
RecAddr(pw, ps, i) == Base + Total(pw, SubSeq(ps, 1, i - 1))

\* a control buffer holding the records of payload sizes ps back to back
BuildBuffer(pw, ps) ==
    [a \in Slots(pw) |->
        IF \E i \in 1..Len(ps) : RecAddr(pw, ps, i) = a
        THEN CMSG_LEN(pw, FALSE, ps[CHOOSE i \in 1..Len(ps) : RecAddr(pw, ps, i) = a])
        ELSE 0]

Layouts(pw) ==
    {ps \in UNION {[1..n -> 0..MaxPayload] : n \in 1..MaxRecs} : Total(pw, ps) <= MaxCtlLen}

\* a traversal of a buffer of well-formed records
InitTrav ==
    /\ InitBuild
    /\ IdleAlign
    /\ IdleFd
    /\ msg_control = Base
    /\ \E ps \in Layouts(ptr_width) :
          /\ msg_controllen = Total(ptr_width, ps)
          /\ mem = BuildBuffer(ptr_width, ps)
    /\ cur = Null
    /\ prev = Null
    /\ last_op = "none"
    /\ trace = <<>>

Record(r) == IF IsAddr(r) THEN trace \o <<r>> ELSE trace

FirstHdr ==
    /\ last_op = "none"
    /\ cur' = CMSG_FIRSTHDR(ptr_width, msg_control, msg_controllen)
    /\ prev' = Null
    /\ last_op' = "first"
    /\ trace' = Record(cur')
    /\ UNCHANGED <<buildVars, alignVars, msg_control, msg_controllen, mem, fdVars>>

NxtHdr ==
    /\ IsAddr(cur)
    /\ cur \in DOMAIN mem
    /\ Len(trace) < MaxSteps
    /\ cur' = CMSG_NXTHDR(ptr_width, overflow_checks, ptr_checks,
                          msg_control, msg_controllen, cur, mem[cur])
    /\ prev' = cur
    /\ last_op' = "next"
    /\ trace' = Record(cur')
    /\ UNCHANGED <<buildVars, alignVars, msg_control, msg_controllen, mem, fdVars>>

NextCmsg == FirstHdr \/ NxtHdr

SpecCall == InitCall /\ [][NextCmsg]_vars

SpecTrav == InitTrav /\ [][NextCmsg]_vars

\* ------------------------------------------------------------ descriptor-set bitmap
\* fd arguments: negative, inside the bitmap, and past its end
FdValues == (0 - NegFds)..(8 * (FdSetBytes + GuardBytes) - 1)

InRange(fd) == 0 <= fd /\ fd < Capacity

\* the indices whose bit is set in the bitmap
Bits(bytes) == {i \in 0..(Capacity - 1) : FD_ISSET(i, bytes)}

InitFd ==
    /\ IdleBuild
    /\ IdleAlign
    /\ IdleCmsg
    /\ \E p \in {0, ByteMod - 1} : fdmem = [b \in FdBytes |-> p]
    /\ members = Bits(fdmem)
    /\ fd_op = "none"
    /\ fd_arg = 0
    /\ fd_access = {}
    /\ isset_ret = FALSE
    /\ oob = FALSE
    /\ nops = 0

\* bookkeeping common to the calls that take an fd
FdCall(op, fd) ==
    /\ nops < MaxOps
    /\ nops' = nops + 1
    /\ fd_op' = op
    /\ fd_arg' = fd
    /\ fd_access' = FdAccess(fd)
    /\ oob' = (oob \/ \E b \in FdAccess(fd) : b >= SizeofFdSet)
    /\ UNCHANGED <<buildVars, alignVars, cmsgVars>>

\* a write past the end of the bitmap is undefined: the store lands in the
\* foreign memory or is dropped
FdStore(fd, written) ==
    IF fd >= 0 /\ FdByte(fd) >= SizeofFdSet
    THEN fdmem' \in {written, fdmem}
    ELSE fdmem' = written

FdSet ==
    \E fd \in FdValues :
        /\ FdCall("set", fd)
        /\ FdStore(fd, FD_SET(fd, fdmem))
        /\ members' = IF InRange(fd) THEN members \cup {fd} ELSE members
        /\ UNCHANGED isset_ret

FdClr ==
    \E fd \in FdValues :
        /\ FdCall("clr", fd)
        /\ FdStore(fd, FD_CLR(fd, fdmem))
        /\ members' = IF InRange(fd) THEN members \ {fd} ELSE members
        /\ UNCHANGED isset_ret

\* a read past the end of the bitmap is undefined: any result
FdIsSet ==
    \E fd \in FdValues :
        /\ FdCall("isset", fd)
        /\ IF fd >= 0 /\ FdByte(fd) >= SizeofFdSet
           THEN isset_ret' \in BOOLEAN
           ELSE isset_ret' = FD_ISSET(fd, fdmem)
        /\ UNCHANGED <<fdmem, members>>

FdZero ==
    /\ nops < MaxOps
    /\ nops' = nops + 1
    /\ fd_op' = "zero"
    /\ fd_access' = 0..(SizeofFdSet - 1)
    /\ fdmem' = FD_ZERO(fdmem)
    /\ members' = {}
    /\ UNCHANGED <<buildVars, alignVars, cmsgVars, fd_arg, isset_ret, oob>>

NextFd == FdSet \/ FdClr \/ FdIsSet \/ FdZero

SpecFd == InitFd /\ [][NextFd]_vars

\* ------------------------------------------------------------ claims: cmsg_macros
\* the last call was CMSG_NXTHDR on a header inside the control buffer
NxtCalled ==
    /\ last_op = "next"
    /\ HeaderInside(ptr_width, msg_control, msg_controllen, prev)

\* C1: every non-null result of CMSG_NXTHDR on a header inside the control
\* buffer is a header that lies inside the control buffer, whatever cmsg_len is.
C1_ResultInsideBuffer ==
    (NxtCalled /\ IsAddr(cur)) =>
        HeaderInside(ptr_width, msg_control, msg_controllen, cur)

\* the control buffer holds exactly two back-to-back valid records
TwoRecords ==
    LET first == msg_control
        a1 == CMSG_ALIGN(ptr_width, FALSE, mem[first])
        second == first + a1
    IN  /\ IsAddr(first)
        /\ mem[first] >= SizeofCmsghdr(ptr_width)
        /\ second \in DOMAIN mem
        /\ mem[second] >= SizeofCmsghdr(ptr_width)
        /\ msg_controllen = a1 + CMSG_ALIGN(ptr_width, FALSE, mem[second])

SecondRecord == msg_control + CMSG_ALIGN(ptr_width, FALSE, mem[msg_control])

\* C2: in a buffer of exactly two back-to-back valid records, CMSG_NXTHDR of
\* the first record returns the second and CMSG_NXTHDR of the second returns null.
C2_TwoRecords ==
    (TwoRecords /\ last_op = "next") =>
        /\ prev = msg_control => cur = SecondRecord
        /\ prev = SecondRecord => cur = Null

\* C3: a 32-byte buffer holding A (cmsg_len = 20) and, where A's aligned length
\* ends, B (cmsg_len = 12) is traversed as A, B, then null.
C3_Scenario ==
    (/\ msg_controllen = 32
     /\ IsAddr(msg_control)
     /\ mem[msg_control] = 20
     /\ SecondRecord \in DOMAIN mem
     /\ mem[SecondRecord] = 12
     /\ last_op # "none"
     /\ cur = Null) =>
        trace = <<msg_control, SecondRecord>>

\* C4: CMSG_NXTHDR returns null or an address at least size_of(cmsghdr) above
\* its argument.
C4_StrictAdvance ==
    (NxtCalled /\ IsAddr(cur)) => cur >= prev + SizeofCmsghdr(ptr_width)

\* the result the call returned, if it returned
Returned(v) == v # NoVal /\ v # Panic

\* C8 as stated: CMSG_ALIGN is idempotent and never below its argument, for
\* every c_uint.
C8_AlignAlways ==
    /\ Returned(aligned) => aligned >= len
    /\ Returned(realigned) => realigned = aligned

\* C8 as amended: CMSG_ALIGN is idempotent wherever it returns, and it is not
\* below its argument when len <= UINT_MAX - size_of(c_long) + 1.
C8_AlignNoOverflow ==
    /\ (Returned(aligned) /\ len <= UIntMod - SizeofCLong(ptr_width)) => aligned >= len
    /\ Returned(realigned) => realigned = aligned

C8_Witness == Returned(realigned) /\ aligned > len

\* C9: CMSG_FIRSTHDR returns null when msg_controllen < size_of(cmsghdr), and
\* msg_control otherwise; it changes neither the envelope nor the buffer.
C9_FirstHdr ==
    [][last_op' = "first" =>
        /\ cur' = IF msg_controllen < SizeofCmsghdr(ptr_width) THEN Null ELSE msg_control
        /\ <<msg_control, msg_controllen, mem>>' = <<msg_control, msg_controllen, mem>>]_vars

C9_Witness ==
    /\ last_op = "first"
    /\ msg_control # Null
    /\ msg_controllen > 0
    /\ msg_controllen < SizeofCmsghdr(ptr_width)
    /\ cur = Null

\* the decision rule of the specification, in exact arithmetic: align rounds
\* cmsg_len up to a multiple of the word size
DecisionRule(pw, control, controllen, cmsg, cmsg_len) ==
    LET word_size == SizeofCLong(pw)
        a == ((cmsg_len + word_size - 1) \div word_size) * word_size
        candidate == cmsg + a
        buffer_end == control + controllen
    IN  IF cmsg_len < SizeofCmsghdr(pw) THEN Null
        ELSE IF candidate + 1 > buffer_end THEN Null
        ELSE IF candidate + a > buffer_end THEN Null
        ELSE candidate

\* C10: whenever CMSG_NXTHDR returns, its result is that of the decision rule.
C10_DecisionRule ==
    (NxtCalled /\ cur # Panic) =>
        cur = DecisionRule(ptr_width, msg_control, msg_controllen, prev, mem[prev])

\* ------------------------------------------------------------ claims: select_macros
\* C5: the bitmap is the set of indices: FD_ISSET(i) holds exactly for the
\* indices whose most recent FD_SET/FD_CLR/FD_ZERO was FD_SET(i), as long as
\* every fd was below the capacity.
C5_BitmapIsSet ==
    ~oob =>
        /\ \A i \in 0..(Capacity - 1) : FD_ISSET(i, fdmem) <=> i \in members
        /\ (fd_op = "isset" /\ InRange(fd_arg)) => (isset_ret <=> fd_arg \in members)

C5_Witness ==
    /\ ~oob
    /\ fd_op = "clr"
    /\ InRange(fd_arg)
    /\ nops = MaxOps
    /\ members # {}
    /\ Cardinality(members) < Capacity - 1

\* C6 as stated: a call with fd at or above the capacity touches no byte.
C6_OutOfRangeIgnored ==
    (fd_op \in {"set", "clr", "isset"} /\ fd_arg >= Capacity) => fd_access = {}

\* C6 as amended: a call with 0 <= fd < capacity touches only byte fd / 8 of
\* the bitmap and leaves the memory after it alone; a call with fd >= capacity
\* is not ignored: it touches byte fd / 8, past the end of the bitmap.
C6_OnlyInRangeStaysInside ==
    [][(fd_op' \in {"set", "clr", "isset"} /\ nops' = nops + 1 /\ fd_arg' >= 0) =>
        /\ fd_access' = {fd_arg' \div 8}
        /\ \A b \in FdBytes : b # fd_arg' \div 8 => fdmem'[b] = fdmem[b]
        /\ IF fd_arg' < Capacity
           THEN /\ \A b \in fd_access' : b < SizeofFdSet
                /\ \A b \in FdBytes : b >= SizeofFdSet => fdmem'[b] = fdmem[b]
                /\ oob' = oob
           ELSE /\ \E b \in fd_access' : b >= SizeofFdSet
                /\ \A b \in FdBytes : b < SizeofFdSet => fdmem'[b] = fdmem[b]
                /\ oob']_vars

C6_Witness ==
    /\ fd_op = "set"
    /\ fd_arg >= Capacity
    /\ oob
    /\ fd_access = {fd_arg \div 8}
    /\ FD_ISSET(fd_arg, fdmem)

\* C7: with a negative fd, FD_SET and FD_CLR change no byte, FD_ISSET returns
\* false, and none of them touches memory.
C7_NegativeFdNoOp ==
    [][(fd_op' \in {"set", "clr", "isset"} /\ nops' = nops + 1 /\ fd_arg' < 0) =>
        /\ fdmem' = fdmem
        /\ fd_access' = {}
        /\ oob' = oob
        /\ fd_op' = "isset" => isset_ret' = FALSE]_vars

C7_Witness ==
    /\ fd_op = "isset"
    /\ fd_arg < 0
    /\ isset_ret = FALSE
    /\ members # {}

====
